---- MODULE Spec2Model ----
(***************************************************************************)
(* Preset management of the node editor (ui/presets.py).                   *)
(*                                                                         *)
(* Strings are sequences of one-character strings, so that os.path.join,   *)
(* os.path.basename and os.path.splitext are computed character by         *)
(* character as the library computes them.  The filesystem is a function   *)
(* from the paths that exist to the bytes stored there (a sequence of      *)
(* byte tokens).  Two specifications are given:                            *)
(*   Spec        the operators working on the preset store;                *)
(*   SpecPreset  the SvPreset entity and the path resolver.                *)
(***************************************************************************)
EXTENDS Integers, Sequences, FiniteSets, TLC

VARIABLES
    fs,          \* regular files: [path -> bytes], DOMAIN fs = the paths that exist
    dirExists,   \* whether the presets directory exists on disk
    clipboard,   \* context.window_manager.clipboard
    registry,    \* the registry of uploaded gists sv_gist_tools.write_or_append_datafiles keeps: [url -> filename]
    rn,          \* the SvRenamePreset operator instance: dialog position and properties
    last,        \* the last invocation of an operator or of a directory/listing function: arguments, result, effects in order
    pre,         \* the store as it was when the last invocation started
    preset,      \* the SvPreset instance: [st, name, path] (_name, _path)
    p_src,       \* how preset's fields were last supplied (constructor, set_name, set_path)
    p_last       \* the last call on the resolver or the entity: arguments and return value

vars == <<fs, dirExists, clipboard, registry, rn, last, pre, preset, p_src, p_last>>
storeVars == <<fs, dirExists, clipboard, registry, rn, last, pre>>
presetVars == <<preset, p_src, p_last>>

----------------------------------------------------------------------------
(* Bounds *)

\* longest name handed to the SvPreset entity and to get_preset_path
MaxNameLen == 2

----------------------------------------------------------------------------
(* Strings and paths *)

\* Python None
NoneVal == <<"None">>

\* the empty string
Empty == <<>>

\* bpy.utils.user_resource('DATAFILES', path='sverchok/presets')
PresetsDir == <<"/", "p">>

\* the ".json" suffix of get_preset_path
JsonExt == <<".", "j", "s", "o", "n">>

\* str.rfind(c), 1-based: 0 when c does not occur (Python's -1)
RFind(s, c) == LET I == {i \in 1..Len(s) : s[i] = c} IN IF I = {} THEN 0 ELSE CHOOSE i \in I : \A j \in I : j <= i

\* posixpath.join(a, b)
join_mut(a, b) == a \o b
join(a, b) == IF b # <<>> /\ b[1] = "/" THEN b ELSE IF a = <<>> \/ a[Len(a)] = "/" THEN a \o b ELSE a \o <<"/">> \o b

\* os.path.basename(p)
basename(p) == SubSeq(p, RFind(p, "/") + 1, Len(p))

\* os.path.splitext(p)[0]: the extension starts at the last dot, unless only dots precede it in the file name
splitext_root(p) == LET sepIndex == RFind(p, "/") dotIndex == RFind(p, ".") IN IF dotIndex > sepIndex /\ (\E i \in (sepIndex + 1)..(dotIndex - 1) : p[i] # ".") THEN SubSeq(p, 1, dotIndex - 1) ELSE p

\* the name SvPreset derives from a path (lines 57-58 and 77-78)
Stem(p) == splitext_root(basename(p))

\* get_preset_path's return value
preset_path_mut(name) == join(PresetsDir, name)
preset_path(name) == join(PresetsDir, name \o JsonExt)

\* get_presets_directory's effect on the directory: it exists afterwards
presets_directory_exists_after_mut(d) == d
presets_directory_exists_after(d) == TRUE

\* the effects get_presets_directory adds to an invocation's effects
DirEffects(d) == IF d THEN <<>> ELSE <<"makedirs">>

----------------------------------------------------------------------------
(* Bytes, JSON and the external collaborators *)

\* whether the name json is bound in the module: the imports (lines 19-30) never import it
json_imported == FALSE

\* bytes.decode('utf8') succeeds unless a byte is no UTF-8
Utf8Valid(bytes) == \A i \in 1..Len(bytes) : bytes[i] # "xFF"

\* the nodes of the one node tree, and the node groups bpy.data.node_groups holds
Nodes == {"n1"}
NodeGroups == {<<"T">>}

\* create_dict_of_tree(ng, selected=True) followed by write_json: the bytes of the selected nodes
Serialize(sel) == <<"tree">> \o (IF "n1" \in sel THEN <<"n1">> ELSE <<>>)

\* the order of the keys json.dumps(sort_keys=True) sorts by
KeyOrder == <<"export_version", "nodes">>

\* the items of a dict sorted by key
SortItems(items) == LET Pick(k) == SelectSeq(items, LAMBDA it : it[1] = k) IN Pick(KeyOrder[1]) \o Pick(KeyOrder[2])

\* one item of json.dumps(indent=2): a separator, the indent, the key, the value
DumpItem(items, i) == (IF i = 1 THEN <<>> ELSE <<",">>) \o <<"\n  ", items[i][1], ": ", items[i][2]>>

\* json.dumps(data, sort_keys=True, indent=2).encode('utf8')
json_dumps(data) == IF data.isNone THEN <<"null">> ELSE IF data.items = <<>> THEN <<"{}">> ELSE LET it == SortItems(data.items) IN <<"{">> \o DumpItem(it, 1) \o (IF Len(it) > 1 THEN DumpItem(it, 2) ELSE <<>>) \o <<"\n", "}">>

\* what sv_IO_panel_tools.load_json_from_gist can return: None when the fetch fails, else the parsed JSON
GistNone == [isNone |-> TRUE, items |-> <<>>]
GistDict == [isNone |-> FALSE, items |-> <<<<"nodes", "N">>, <<"export_version", "V">>>>]
GistData == {GistNone, GistDict}

\* the URL sv_gist_tools.main_upload_function returns for an uploaded file
GistUrl(gist_filename) == <<"u", ":">> \o gist_filename

\* sv_gist_tools.write_or_append_datafiles(gist_url, gist_filename): the registry maps the URL to the filename afterwards, whatever it held before
write_or_append_datafiles(reg, gist_url, gist_filename) == [u \in DOMAIN reg \cup {gist_url} |-> IF u = gist_url THEN gist_filename ELSE reg[u]]

\* the registry with nothing recorded
NoUploads == [u \in {} |-> Empty]

\* how the try block of SvPresetToGist can go: no fault, the upload raises, the assignment to the clipboard raises, the registry step raises
Faults == {"none", "upload", "clipboard", "registry"}

----------------------------------------------------------------------------
(* The inputs of the operators *)

\* preset names handed to the operators
StoreNames == {Empty, <<"a">>, <<"b">>}

\* a file outside the presets directory, and the file paths the file selector hands over
ExtPath == <<"/", "x">>
FilePaths == {Empty, ExtPath, preset_path(<<"b">>)}

\* id_tree values: none, the existing tree, a tree that does not exist
TreeIds == {Empty, <<"T">>, <<"U">>}

\* gist ids
GistIds == {Empty, <<"g">>}

\* the bytes of the outside file when the session starts: bytes that are no UTF-8
ExtContents == {<<"xFF">>}

----------------------------------------------------------------------------
(* Filesystem calls *)

exists(f, p) == p \in DOMAIN f

\* os.rename(old, new) on POSIX, old existing: new is replaced silently
os_rename_mut(f, old, new) == [q \in DOMAIN f \cup {new} |-> IF q = new THEN f[old] ELSE f[q]]
os_rename(f, old, new) == [q \in (DOMAIN f \ {old}) \cup {new} |-> IF q = new THEN f[old] ELSE f[q]]

\* os.remove(p), p existing
os_remove(f, p) == [q \in DOMAIN f \ {p} |-> f[q]]

\* shutil.copy(src, dst), src existing and another file than dst
shutil_copy(f, src, dst) == [q \in DOMAIN f \cup {dst} |-> IF q = dst THEN f[src] ELSE f[q]]

\* open(p, 'wb'): creates or truncates
open_wb(f, p) == [q \in DOMAIN f \cup {p} |-> IF q = p THEN <<>> ELSE f[q]]

\* jsonfile.write(bytes)
file_write(f, p, bytes) == [f EXCEPT ![p] = @ \o bytes]

----------------------------------------------------------------------------
(* The record of an invocation *)

\* one invocation: operator or function, its string parameters, the selection, the fetched data, the fault, what it returned, the message reported, the effects done in order, the list returned (by the listing functions)
Invocation(op, name, other, sel, data, fault, edited, result, msg, effects) == [op |-> op, name |-> name, other |-> other, sel |-> sel, data |-> data, fault |-> fault, edited |-> edited, result |-> result, msg |-> msg, effects |-> effects, listing |-> <<>>]

NoInvocation == Invocation("none", Empty, Empty, {}, GistNone, "none", FALSE, "NONE", "", <<>>)

Snapshot == [fs |-> fs, dir |-> dirExists, clip |-> clipboard, reg |-> registry]

\* an invocation ends: its record, and the store it leaves
Ends(rec, fs2, dir2, clip2, reg2) == /\ last' = rec /\ pre' = Snapshot /\ fs' = fs2 /\ dirExists' = dir2 /\ clipboard' = clip2 /\ registry' = reg2

\* an invocation ends having touched nothing
EndsUntouched(rec) == Ends(rec, fs, dirExists, clipboard, registry)

\* an invocation ends after get_preset_path, the files as f2
EndsInDir(rec, f2) == Ends(rec, f2, presets_directory_exists_after(dirExists), clipboard, registry)

----------------------------------------------------------------------------
(* The presets directory and its listing *)

\* ord(c) of the characters that occur in paths
Ord(c) == CASE c = "." -> 46 [] c = "/" -> 47 [] c = "a" -> 97 [] c = "b" -> 98 [] c = "c" -> 99 [] c = "j" -> 106 [] c = "n" -> 110 [] c = "o" -> 111 [] c = "p" -> 112 [] c = "q" -> 113 [] c = "s" -> 115 [] c = "x" -> 120

\* s < t as Python compares strings
LexLess(s, t) == \E i \in 1..(Len(t)) : /\ \A j \in 1..(i - 1) : j <= Len(s) /\ s[j] = t[j]
                                        /\ (i > Len(s) \/ Ord(s[i]) < Ord(t[i]))

\* sorted(S)
RECURSIVE Sorted(_)
Sorted(S) == IF S = {} THEN <<>> ELSE LET m == CHOOSE x \in S : \A y \in S \ {x} : LexLess(x, y) IN <<m>> \o Sorted(S \ {m})

\* glob(join(presets, "*.json")): the files of the directory whose name ends in ".json" and does not start with a dot
glob_json(f) == {q \in DOMAIN f : LET base == basename(q) IN /\ q = join(PresetsDir, base) /\ base # Empty /\ base[1] # "."
                                                              /\ Len(base) >= Len(JsonExt) /\ SubSeq(base, Len(base) - Len(JsonExt) + 1, Len(base)) = JsonExt}

\* get_preset_paths' return value
preset_paths(f) == Sorted(glob_json(f))

\* get_presets' return value: one SvPreset(path=path) for each path
presets_list(f) == LET paths == preset_paths(f) IN [i \in 1..Len(paths) |-> [st |-> "live", name |-> NoneVal, path |-> paths[i]]]

\* a call of a directory or listing function, at any time (the panel calls them whenever the host redraws it): it returns, the directory exists afterwards, no file changes
Listed(fn, listing) == /\ last' = [Invocation(fn, Empty, Empty, {}, GistNone, "none", FALSE, "RETURNED", "", DirEffects(dirExists)) EXCEPT !.listing = listing]
                       /\ pre' = Snapshot
                       /\ dirExists' = presets_directory_exists_after(dirExists)
                       /\ UNCHANGED <<fs, clipboard, registry, rn, presetVars>>

\* get_presets_directory(): returns the directory
get_presets_directory == Listed("get_presets_directory", <<PresetsDir>>)

\* get_preset_paths()
get_preset_paths == Listed("get_preset_paths", preset_paths(fs))

\* get_presets(), as the panel calls it each time it is drawn
get_presets == Listed("get_presets", presets_list(fs))

----------------------------------------------------------------------------
(* SvSaveSelected *)

\* line 110: if not self.id_tree
Save_no_tree(id_tree) == id_tree = Empty

\* line 116: if not self.preset_name
Save_no_name(preset_name) == preset_name = Empty

\* lines 124-125: no node of the tree is selected
Save_no_selection_mut(sel) == FALSE
Save_no_selection(sel) == sel = {}

SvSaveSelected_execute(id_tree, preset_name, sel) ==
    LET R(result, msg, eff) == Invocation("save", preset_name, id_tree, sel, GistNone, "none", FALSE, result, msg, eff)
        destination_path == preset_path(preset_name)
    IN  /\ rn.pc = "idle"
        /\ UNCHANGED <<rn, presetVars>>
        /\ IF Save_no_tree(id_tree) THEN EndsUntouched(R("CANCELLED", "Node tree is not specified", <<>>))
           ELSE IF Save_no_name(preset_name) THEN EndsUntouched(R("CANCELLED", "Preset name is not specified", <<>>))
           ELSE IF id_tree \notin NodeGroups THEN EndsUntouched(R("EXCEPTION", "KeyError", <<>>))
           ELSE IF Save_no_selection(sel) THEN EndsUntouched(R("CANCELLED", "There are no selected nodes to export", <<>>))
           ELSE EndsInDir(R("FINISHED", "exported", DirEffects(dirExists) \o <<"write">>), file_write(open_wb(fs, destination_path), destination_path, Serialize(sel)))

----------------------------------------------------------------------------
(* SvRenamePreset *)

\* line 197: the dialog opens with new_name set to old_name
Rename_prefill_mut(old_name) == Empty
Rename_prefill(old_name) == old_name

\* line 183: os.path.exists(new_path)
Rename_conflict_mut(f, new_path) == FALSE
Rename_conflict(f, new_path) == exists(f, new_path)

\* no dialog is open; the dialog of wm.invoke_props_dialog is modal, so the other operators run only in this position
RenameIdle == [pc |-> "idle", old_name |-> Empty, new_name |-> Empty, edited |-> FALSE]

\* the panel sets old_name (line 476) and the host calls invoke, which returns what wm.invoke_props_dialog returns
SvRenamePreset_invoke(old_name) ==
    /\ rn.pc = "idle"
    /\ rn' = [pc |-> "dialog", old_name |-> old_name, new_name |-> Rename_prefill(old_name), edited |-> FALSE]
    /\ last' = Invocation("rename_invoke", old_name, Rename_prefill(old_name), {}, GistNone, "none", FALSE, "RUNNING_MODAL", "", <<>>)
    /\ pre' = Snapshot
    /\ UNCHANGED <<fs, dirExists, clipboard, registry, presetVars>>

\* the user edits the one property the dialog draws (lines 163-165)
SvRenamePreset_draw(new_name) ==
    /\ rn.pc = "dialog"
    /\ new_name # rn.new_name
    /\ rn' = [rn EXCEPT !.new_name = new_name, !.edited = TRUE]
    /\ UNCHANGED <<fs, dirExists, clipboard, registry, last, pre, presetVars>>

\* the user confirms the dialog
SvRenamePreset_execute ==
    LET R(result, msg, eff) == Invocation("rename", rn.old_name, rn.new_name, {}, GistNone, "none", rn.edited, result, msg, eff)
        old_path == preset_path(rn.old_name)
        new_path == preset_path(rn.new_name)
    IN  /\ rn.pc = "dialog"
        /\ rn' = RenameIdle
        /\ UNCHANGED presetVars
        /\ IF rn.old_name = Empty THEN EndsUntouched(R("CANCELLED", "Old preset name is not specified", <<>>))
           ELSE IF rn.new_name = Empty THEN EndsUntouched(R("CANCELLED", "New preset name is not specified", <<>>))
           ELSE IF Rename_conflict(fs, new_path) THEN EndsInDir(R("CANCELLED", "already exists", DirEffects(dirExists)), fs)
           ELSE IF ~exists(fs, old_path) THEN EndsInDir(R("EXCEPTION", "FileNotFoundError", DirEffects(dirExists)), fs)
           ELSE EndsInDir(R("FINISHED", "Renamed", DirEffects(dirExists) \o <<"rename">>), os_rename(fs, old_path, new_path))

----------------------------------------------------------------------------
(* SvDeletePreset *)

SvDeletePreset_execute(preset_name) ==
    LET R(result, msg, eff) == Invocation("delete", preset_name, Empty, {}, GistNone, "none", FALSE, result, msg, eff)
        path == preset_path(preset_name)
    IN  /\ rn.pc = "idle"
        /\ UNCHANGED <<rn, presetVars>>
        /\ IF preset_name = Empty THEN EndsUntouched(R("CANCELLED", "Preset name is not specified", <<>>))
           ELSE IF ~exists(fs, path) THEN EndsInDir(R("EXCEPTION", "FileNotFoundError", DirEffects(dirExists)), fs)
           ELSE EndsInDir(R("FINISHED", "Removed", DirEffects(dirExists) \o <<"remove">>), os_remove(fs, path))

----------------------------------------------------------------------------
(* SvPresetToGist *)

\* lines 263-268: the return of the except clause is replaced by the return of the finally clause
ToGist_result_mut(raised) == IF raised THEN "CANCELLED" ELSE "FINISHED"
ToGist_result(raised) == "FINISHED"

SvPresetToGist_execute(preset_name, fault) ==
    LET R(result, msg, eff) == Invocation("to_gist", preset_name, Empty, {}, GistNone, fault, FALSE, result, msg, eff)
        path == preset_path(preset_name)
        gist_filename == preset_name \o JsonExt
        gist_url == GistUrl(gist_filename)
        dir2 == presets_directory_exists_after(dirExists)
    IN  /\ rn.pc = "idle"
        /\ UNCHANGED <<rn, presetVars>>
        /\ IF preset_name = Empty THEN EndsUntouched(R("CANCELLED", "Preset name is not specified", <<>>))
           ELSE IF ~exists(fs, path) THEN EndsInDir(R("EXCEPTION", "FileNotFoundError", DirEffects(dirExists)), fs)
           ELSE IF ~Utf8Valid(fs[path]) THEN EndsInDir(R("EXCEPTION", "UnicodeDecodeError", DirEffects(dirExists)), fs)
           ELSE IF fault = "upload" THEN Ends(R(ToGist_result(TRUE), "Error uploading the gist", DirEffects(dirExists)), fs, dir2, clipboard, registry)
           ELSE IF fault = "clipboard" THEN Ends(R(ToGist_result(TRUE), "Error uploading the gist", DirEffects(dirExists) \o <<"upload">>), fs, dir2, clipboard, registry)
           ELSE IF fault = "registry" THEN Ends(R(ToGist_result(TRUE), "Error uploading the gist", DirEffects(dirExists) \o <<"upload", "clipboard">>), fs, dir2, gist_url, registry)
           ELSE Ends(R(ToGist_result(FALSE), "Copied gist URL to clipboad", DirEffects(dirExists) \o <<"upload", "clipboard", "registry">>), fs, dir2, gist_url, write_or_append_datafiles(registry, gist_url, gist_filename))

----------------------------------------------------------------------------
(* SvPresetToFile and SvPresetFromFile *)

\* shutil.copy raises when the source is missing (FileNotFoundError) or source and target are one file (SameFileError)
Copy_raises(f, src, dst) == ~exists(f, src) \/ src = dst

\* the files after shutil.copy(src, dst) was called: the source is opened before the target, so a call that raises writes nothing
Copy_files_mut(f, src, dst) == IF src = dst THEN f ELSE IF ~exists(f, src) THEN open_wb(f, dst) ELSE shutil_copy(f, src, dst)
Copy_files(f, src, dst) == IF Copy_raises(f, src, dst) THEN f ELSE shutil_copy(f, src, dst)

SvPresetToFile_execute(preset_name, filepath) ==
    LET R(result, msg, eff) == Invocation("to_file", preset_name, filepath, {}, GistNone, "none", FALSE, result, msg, eff)
        existing_path == preset_path(preset_name)
    IN  /\ rn.pc = "idle"
        /\ UNCHANGED <<rn, presetVars>>
        /\ IF preset_name = Empty THEN EndsUntouched(R("CANCELLED", "Preset name is not specified", <<>>))
           ELSE IF filepath = Empty THEN EndsUntouched(R("CANCELLED", "Target file path is not specified", <<>>))
           ELSE IF Copy_raises(fs, existing_path, filepath) THEN EndsInDir(R("EXCEPTION", IF exists(fs, existing_path) THEN "SameFileError" ELSE "FileNotFoundError", DirEffects(dirExists)), Copy_files(fs, existing_path, filepath))
           ELSE EndsInDir(R("FINISHED", "Saved", DirEffects(dirExists) \o <<"copy">>), Copy_files(fs, existing_path, filepath))

SvPresetFromFile_execute(preset_name, filepath) ==
    LET R(result, msg, eff) == Invocation("from_file", preset_name, filepath, {}, GistNone, "none", FALSE, result, msg, eff)
        target_path == preset_path(preset_name)
    IN  /\ rn.pc = "idle"
        /\ UNCHANGED <<rn, presetVars>>
        /\ IF preset_name = Empty THEN EndsUntouched(R("CANCELLED", "Preset name is not specified", <<>>))
           ELSE IF filepath = Empty THEN EndsUntouched(R("CANCELLED", "Source file path is not specified", <<>>))
           ELSE IF Copy_raises(fs, filepath, target_path) THEN EndsInDir(R("EXCEPTION", IF exists(fs, filepath) THEN "SameFileError" ELSE "FileNotFoundError", DirEffects(dirExists)), Copy_files(fs, filepath, target_path))
           ELSE EndsInDir(R("FINISHED", "Imported", DirEffects(dirExists) \o <<"copy">>), Copy_files(fs, filepath, target_path))

----------------------------------------------------------------------------
(* SvPresetFromGist *)

\* line 394: os.path.exists(target_path)
FromGist_conflict_mut(f, target_path) == FALSE
FromGist_conflict(f, target_path) == exists(f, target_path)

SvPresetFromGist_execute(gist_id, preset_name, gist_data) ==
    LET R(result, msg, eff) == Invocation("from_gist", preset_name, gist_id, {}, gist_data, "none", FALSE, result, msg, eff)
        target_path == preset_path(preset_name)
        eff == <<"fetch">> \o DirEffects(dirExists)
    IN  /\ rn.pc = "idle"
        /\ UNCHANGED <<rn, presetVars>>
        /\ IF preset_name = Empty THEN EndsUntouched(R("CANCELLED", "Preset name is not specified", <<>>))
           ELSE IF gist_id = Empty THEN EndsUntouched(R("CANCELLED", "Gist ID is not specified", <<>>))
           ELSE IF FromGist_conflict(fs, target_path) THEN EndsInDir(R("CANCELLED", "already exists", eff), fs)
           ELSE IF ~json_imported THEN EndsInDir(R("EXCEPTION", "NameError", eff \o <<"open">>), open_wb(fs, target_path))
           ELSE EndsInDir(R("FINISHED", "Imported", eff \o <<"open", "write">>), file_write(open_wb(fs, target_path), target_path, json_dumps(gist_data)))

----------------------------------------------------------------------------
(* The path resolver and the SvPreset entity *)

\* the characters of the names handed to the entity
Alphabet == {"a", ".", "/"}

\* the names and the paths handed to the entity and to the resolver
NameArgs == UNION {[1..k -> Alphabet] : k \in 0..MaxNameLen}
PathArgs == {<<"/", "q", "/", "a", ".", "j">>, <<"a", ".", "b", ".", "c">>, <<"/", "p", "/", ".", "a">>}

PresetIdle == [st |-> "none", name |-> NoneVal, path |-> NoneVal]
NoCall == [op |-> "none", arg |-> NoneVal, ret |-> NoneVal, dir |-> FALSE, files |-> <<>>]
NoSource == [kind |-> "none", name |-> NoneVal, path |-> NoneVal]

\* a call on the resolver or the entity: its argument, what it returned, the directory and the files before it
Call(op, arg, ret) == [op |-> op, arg |-> arg, ret |-> ret, dir |-> dirExists, files |-> fs]

\* get_name (lines 53-60): the value returned, and the fields afterwards
get_name_value(p) == IF p.name # NoneVal THEN p.name ELSE Stem(p.path)
get_name_fields(p) == [p EXCEPT !.name = get_name_value(p)]

\* get_path (lines 68-74): the value returned, and the fields afterwards
get_path_value(p) == IF p.path # NoneVal THEN p.path ELSE preset_path(p.name)
get_path_fields(p) == [p EXCEPT !.path = get_path_value(p)]

\* set_name (lines 62-64)
set_name_fields_mut(p, new_name) == [p EXCEPT !.name = new_name]
set_name_fields(p, new_name) == [p EXCEPT !.name = new_name, !.path = preset_path(new_name)]

\* set_path (lines 76-80)
set_path_fields(p, new_path) == [p EXCEPT !.name = Stem(new_path), !.path = new_path]

\* get_preset_path(name), called on its own
get_preset_path(name) ==
    /\ p_last' = Call("get_preset_path", name, preset_path(name))
    /\ dirExists' = presets_directory_exists_after(dirExists)
    /\ UNCHANGED <<fs, clipboard, registry, rn, last, pre, preset, p_src>>

\* SvPreset(name, path)
SvPreset_init(name, path) ==
    /\ IF name = NoneVal /\ path = NoneVal
       THEN /\ p_last' = Call("init", NoneVal, <<"Exception">>)
            /\ UNCHANGED <<preset, p_src>>
       ELSE /\ p_last' = Call("init", NoneVal, NoneVal)
            /\ preset' = [st |-> "live", name |-> name, path |-> path]
            /\ p_src' = [kind |-> "init", name |-> name, path |-> path]
    /\ UNCHANGED storeVars

SvPreset_get_name ==
    /\ preset.st = "live"
    /\ p_last' = Call("get_name", NoneVal, get_name_value(preset))
    /\ preset' = get_name_fields(preset)
    /\ UNCHANGED <<p_src, storeVars>>

SvPreset_set_name(new_name) ==
    /\ preset.st = "live"
    /\ p_last' = Call("set_name", new_name, NoneVal)
    /\ preset' = set_name_fields(preset, new_name)
    /\ p_src' = [kind |-> "set_name", name |-> new_name, path |-> NoneVal]
    /\ dirExists' = presets_directory_exists_after(dirExists)
    /\ UNCHANGED <<fs, clipboard, registry, rn, last, pre>>

SvPreset_get_path ==
    /\ preset.st = "live"
    /\ p_last' = Call("get_path", NoneVal, get_path_value(preset))
    /\ preset' = get_path_fields(preset)
    /\ dirExists' = IF preset.path # NoneVal THEN dirExists ELSE presets_directory_exists_after(dirExists)
    /\ UNCHANGED <<p_src, fs, clipboard, registry, rn, last, pre>>

SvPreset_set_path(new_path) ==
    /\ preset.st = "live"
    /\ p_last' = Call("set_path", new_path, NoneVal)
    /\ preset' = set_path_fields(preset, new_path)
    /\ p_src' = [kind |-> "set_path", name |-> NoneVal, path |-> new_path]
    /\ UNCHANGED storeVars

----------------------------------------------------------------------------
(* The operators on the preset store *)

StoreInit ==
    /\ \E c \in ExtContents : fs = [q \in {ExtPath} |-> c]
    /\ dirExists \in BOOLEAN
    /\ clipboard = Empty
    /\ registry = NoUploads
    /\ rn = RenameIdle
    /\ last = NoInvocation
    /\ pre = Snapshot

Init ==
    /\ StoreInit
    /\ preset = PresetIdle
    /\ p_src = NoSource
    /\ p_last = NoCall

Next ==
    \/ \E id_tree \in TreeIds, preset_name \in StoreNames, sel \in SUBSET Nodes : SvSaveSelected_execute(id_tree, preset_name, sel)
    \/ \E old_name \in StoreNames : SvRenamePreset_invoke(old_name)
    \/ \E new_name \in StoreNames : SvRenamePreset_draw(new_name)
    \/ SvRenamePreset_execute
    \/ \E preset_name \in StoreNames : SvDeletePreset_execute(preset_name)
    \/ \E preset_name \in StoreNames, fault \in Faults : SvPresetToGist_execute(preset_name, fault)
    \/ \E preset_name \in StoreNames, filepath \in FilePaths : SvPresetToFile_execute(preset_name, filepath)
    \/ \E preset_name \in StoreNames, filepath \in FilePaths : SvPresetFromFile_execute(preset_name, filepath)
    \/ \E gist_id \in GistIds, preset_name \in StoreNames, gist_data \in GistData : SvPresetFromGist_execute(gist_id, preset_name, gist_data)
    \/ get_presets_directory
    \/ get_preset_paths
    \/ get_presets

Spec == Init /\ [][Next]_vars

----------------------------------------------------------------------------
(* The resolver and the entity *)

NextPreset ==
    \/ \E name \in NameArgs : get_preset_path(name)
    \/ \E name \in NameArgs \cup {NoneVal}, path \in PathArgs \cup {NoneVal} : SvPreset_init(name, path)
    \/ SvPreset_get_name
    \/ \E new_name \in NameArgs : SvPreset_set_name(new_name)
    \/ SvPreset_get_path
    \/ \E new_path \in PathArgs : SvPreset_set_path(new_path)

SpecPreset == Init /\ [][NextPreset]_vars

----------------------------------------------------------------------------
(* Properties of the operators (checked under Spec) *)

\* the paths the last invocation resolved from its name and from its second string parameter
LastPath == preset_path(last.name)
LastOtherPath == preset_path(last.other)

\* the store is as the last invocation found it
StoreUntouched == fs = pre.fs /\ dirExists = pre.dir /\ clipboard = pre.clip /\ registry = pre.reg

\* the effects of the last invocation other than the creation of the presets directory
EffectsBesidesDir == SelectSeq(last.effects, LAMBDA e : e # "makedirs")

\* C1: a rename with non-empty old and new name whose new path already exists returns CANCELLED and leaves every file, the old one and the new one included, as it was
C1_RenameNeverOverwrites == (last.op = "rename" /\ last.name # Empty /\ last.other # Empty /\ exists(pre.fs, LastOtherPath)) => (last.result = "CANCELLED" /\ fs = pre.fs)

C1_Witness == /\ last.op = "rename" /\ last.name # Empty /\ last.other # Empty /\ last.name # last.other
              /\ exists(pre.fs, LastPath) /\ exists(pre.fs, LastOtherPath) /\ pre.fs[LastPath] # pre.fs[LastOtherPath]
              /\ last.result = "CANCELLED"

\* C2: a rename of an existing preset A to a name B with no file returns FINISHED; afterwards A.json is gone, B.json holds what A.json held, and every other file is unchanged
C2_RenameMoves ==
    (last.op = "rename" /\ last.name # Empty /\ last.other # Empty /\ exists(pre.fs, LastPath) /\ ~exists(pre.fs, LastOtherPath))
    => (/\ last.result = "FINISHED"
        /\ ~exists(fs, LastPath)
        /\ exists(fs, LastOtherPath)
        /\ fs[LastOtherPath] = pre.fs[LastPath]
        /\ DOMAIN fs \ {LastOtherPath} = DOMAIN pre.fs \ {LastPath}
        /\ \A q \in DOMAIN fs \ {LastOtherPath} : fs[q] = pre.fs[q])

C2_Witness == /\ last.op = "rename" /\ last.result = "FINISHED" /\ exists(pre.fs, LastPath) /\ pre.fs[LastPath] = Serialize({"n1"})
              /\ Cardinality(DOMAIN fs) = 2

\* C3: an import from a gist with non-empty gist id and preset name whose preset file already exists returns CANCELLED and leaves every file as it was
C3_FromGistNeverOverwrites == (last.op = "from_gist" /\ last.name # Empty /\ last.other # Empty /\ exists(pre.fs, LastPath)) => (last.result = "CANCELLED" /\ fs = pre.fs)

C3_Witness == /\ last.op = "from_gist" /\ last.name # Empty /\ last.other # Empty /\ ~last.data.isNone
              /\ exists(pre.fs, LastPath) /\ pre.fs[LastPath] # <<>> /\ last.result = "CANCELLED"

\* C4: an import from a gist with non-empty gist id and preset name, no preset of that name and a fetch that succeeds returns FINISHED and leaves the canonical JSON encoding of the fetched content in the preset file
C4_FromGistWritesCanonical == (last.op = "from_gist" /\ last.name # Empty /\ last.other # Empty /\ ~exists(pre.fs, LastPath) /\ ~last.data.isNone) => (last.result = "FINISHED" /\ exists(fs, LastPath) /\ fs[LastPath] = json_dumps(last.data))

\* C5: an export to a gist of a readable preset returns FINISHED whether or not the upload, clipboard and registry steps raise, and CANCELLED is returned exactly when preset_name is empty
C5_ToGistAlwaysFinished ==
    last.op = "to_gist"
    => (/\ ((last.name # Empty /\ exists(pre.fs, LastPath) /\ Utf8Valid(pre.fs[LastPath])) => last.result = "FINISHED")
        /\ (last.result = "CANCELLED" <=> last.name = Empty))

C5_Witness == /\ last.op = "to_gist" /\ last.fault = "registry" /\ last.result = "FINISHED"
              /\ clipboard # pre.clip /\ registry = pre.reg

\* the last invocation failed the validation of its parameters
Invalid == \/ last.op = "save" /\ (last.other = Empty \/ last.name = Empty \/ (last.other \in NodeGroups /\ last.sel = {}))
           \/ last.op \in {"rename", "to_file", "from_file", "from_gist"} /\ (last.name = Empty \/ last.other = Empty)
           \/ last.op \in {"delete", "to_gist"} /\ last.name = Empty

\* C6: an invocation with an empty required string parameter, or a save with no node selected, returns CANCELLED having written, removed, renamed, copied and created nothing and made no network call
C6_ValidationPrecedesEffects == Invalid => (last.result = "CANCELLED" /\ last.effects = <<>> /\ StoreUntouched)

C6_Witness == /\ last.op = "save" /\ last.other \in NodeGroups /\ last.name # Empty /\ last.sel = {}
              /\ last.result = "CANCELLED" /\ ~dirExists

\* C7 as stated: every invocation performs at most one filesystem or network effect (the creation of the presets directory not counted)
C7_AtMostOneEffect == Len(EffectsBesidesDir) <= 1

\* C7 amended: save, rename, delete, export to file and import from file perform at most one filesystem or network effect besides the creation of the presets directory, and when they do not return FINISHED every file, the clipboard and the registry are as they were
C7_SingleEffectOperators ==
    last.op \in {"save", "rename", "delete", "to_file", "from_file"}
    => (/\ Len(EffectsBesidesDir) <= 1
        /\ (last.result # "FINISHED" => (EffectsBesidesDir = <<>> /\ fs = pre.fs /\ clipboard = pre.clip /\ registry = pre.reg)))

C7_Witness == /\ last.op = "from_file" /\ last.result = "EXCEPTION" /\ last.msg = "FileNotFoundError"
              /\ ~exists(pre.fs, LastPath) /\ ~pre.dir /\ dirExists

\* C10: a rename confirmed with the pre-filled new_name for an existing preset returns CANCELLED with the conflict message and leaves the store as it was; a rename returns FINISHED only after new_name was edited to another name with no file
C10_RenameDialogDefault ==
    last.op = "rename"
    => (/\ ((~last.edited /\ last.name # Empty /\ exists(pre.fs, LastPath))
            => (last.result = "CANCELLED" /\ last.msg = "already exists" /\ last.other = last.name /\ StoreUntouched))
        /\ (last.result = "FINISHED"
            => (last.edited /\ last.other # last.name /\ ~exists(pre.fs, LastOtherPath))))

C10_Witness == /\ last.op = "rename" /\ ~last.edited /\ last.name # Empty /\ exists(pre.fs, LastPath)
               /\ last.msg = "already exists" /\ rn.pc = "idle"

----------------------------------------------------------------------------
(* Properties of the resolver and the entity (checked under SpecPreset) *)

\* the presets directory, a separator, the name and ".json"; a name starting with the separator replaces the directory
DirNameJson(name) == IF name # Empty /\ name[1] = "/" THEN name \o JsonExt ELSE PresetsDir \o <<"/">> \o name \o JsonExt

\* a name with no separator that is not made of dots only
Plain(name) == (\A i \in 1..Len(name) : name[i] # "/") /\ (\E i \in 1..Len(name) : name[i] # ".")

\* the fields were last supplied consistently: a plain name alone, a path alone, or a name that is the stem of the path
SuppliedConsistently == \/ p_src.kind = "init" /\ p_src.name # NoneVal /\ p_src.path = NoneVal /\ Plain(p_src.name)
                        \/ p_src.kind = "init" /\ p_src.name = NoneVal /\ p_src.path # NoneVal
                        \/ p_src.kind = "init" /\ p_src.name # NoneVal /\ p_src.path # NoneVal /\ p_src.name = Stem(p_src.path)
                        \/ p_src.kind = "set_name" /\ Plain(p_src.name)
                        \/ p_src.kind = "set_path"

\* C8 as stated: get_preset_path(name) returns the directory joined with name + ".json" and leaves the filesystem, the presets directory included, as it was
C8_ResolverTouchesNothing == p_last.op = "get_preset_path" => (p_last.ret = DirNameJson(p_last.arg) /\ fs = p_last.files /\ dirExists = p_last.dir)

\* C8 amended: get_preset_path(name) returns the directory joined with name + ".json" and changes no file; the presets directory exists afterwards, so it is created when it was missing
C8_ResolverCreatesDirOnly == p_last.op = "get_preset_path" => (p_last.ret = DirNameJson(p_last.arg) /\ fs = p_last.files /\ dirExists)

C8_Witness == p_last.op = "get_preset_path" /\ p_last.arg = <<"a">> /\ ~p_last.dir /\ dirExists

\* C9 as stated: however the entity was constructed and set, the name read equals the stem of the path read
C9_NameIsStemOfPath == preset.st = "live" => get_name_value(preset) = Stem(get_path_value(preset))

\* C9 amended: when the fields were last supplied consistently the name read equals the stem of the path read; after set_name(n) the path read is get_preset_path(n); after set_path(p) the name read is the stem of p
C9_ConsistentWhenSuppliedSo ==
    preset.st = "live"
    => (/\ (SuppliedConsistently => get_name_value(preset) = Stem(get_path_value(preset)))
        /\ (p_src.kind = "set_name" => (get_path_value(preset) = DirNameJson(p_src.name) /\ get_name_value(preset) = p_src.name))
        /\ (p_src.kind = "set_path" => (get_name_value(preset) = Stem(p_src.path) /\ get_path_value(preset) = p_src.path)))

C9_Witness == /\ preset.st = "live" /\ p_src.kind = "set_name" /\ p_src.name = <<".", "a">>
              /\ p_last.op = "get_name" /\ p_last.ret = Stem(preset.path)

====
